---- MODULE Spec2Model ----
(***************************************************************************)
(* gen::SlabManager (src/SlabManager.hpp): a slot allocator that keeps two *)
(* intrusive doubly-linked lists (empty slots, filled slots) threaded      *)
(* through one std::vector<Elem>.                                          *)
(*                                                                         *)
(* elem_vec is a sequence; the C++ index i is element i + 1 of it.         *)
(* Every public method is one action.  `last` records the call that has    *)
(* just returned (method, argument, return value, exception) and `pre`     *)
(* the object's state when that call was entered; the caller looks at the  *)
(* outcome and drops the record (Observed) before it makes its next call.  *)
(* `order` and `fresh` remember in which order the empty slots became      *)
(* empty.                                                                  *)
(***************************************************************************)
EXTENDS Integers, Sequences, FiniteSets

\* Largest vector length explored: acquire() and resize() are not called
\* with a result longer than this.
MaxSize == 6

\* Index(-1), the largest value of the unsigned index type.  The index type
\* is modelled 31 bits wide, the widest the checker's integers hold.
NULL_INDEX == 2147483647

\* Unsigned subtraction of the index type (wraps below zero).
USub(a, b) == IF a >= b THEN a - b ELSE (NULL_INDEX - (b - a)) + 1

VARIABLES elem_vec, empty_head, filled_head, empty_cnt, filled_cnt,
          last, pre, live, order, fresh

vars == <<elem_vec, empty_head, filled_head, empty_cnt, filled_cnt,
          last, pre, live, order, fresh>>

\* Elem::Elem()
Elem == [is_empty |-> TRUE, prev |-> NULL_INDEX, next |-> NULL_INDEX]

\* The data members of the object, as one record.
Self ==
  [elem_vec |-> elem_vec, empty_head |-> empty_head, filled_head |-> filled_head,
   empty_cnt |-> empty_cnt, filled_cnt |-> filled_cnt]

\* elem_vec[i].f = x
SetPrev(v, i, x) == [v EXCEPT ![i + 1].prev = x]
SetNext(v, i, x) == [v EXCEPT ![i + 1].next = x]
SetEmpty(v, i, x) == [v EXCEPT ![i + 1].is_empty = x]

\* size()
size(m) == Len(m.elem_vec)

\* empty_count()
empty_count(m) == m.empty_cnt

\* filled_count()
filled_count(m) == m.filled_cnt

\* initialize(n): relinks slots 0 .. n-1 as one ascending empty list.
initialize(m, n) ==
  LET v == m.elem_vec
      v1 == IF n > 1
            THEN [i \in 1..Len(v) |->
                    IF i = 1 THEN [is_empty |-> TRUE, prev |-> NULL_INDEX, next |-> 1]
                    ELSE IF i < n THEN [is_empty |-> TRUE, prev |-> (i - 1) - 1, next |-> (i - 1) + 1]
                    ELSE IF i = n THEN [is_empty |-> TRUE, prev |-> n - 2, next |-> NULL_INDEX]
                    ELSE v[i]]
            ELSE [i \in 1..Len(v) |->
                    IF i = 1 THEN [is_empty |-> TRUE, prev |-> NULL_INDEX, next |-> NULL_INDEX]
                    ELSE v[i]]
  IN [elem_vec |-> v1, empty_head |-> 0, filled_head |-> NULL_INDEX,
      empty_cnt |-> n, filled_cnt |-> 0]

\* Faulty variant of Construct: n = 0 is not raised to 1.
Faulty_Construct_NoMinimum(n) ==
  initialize([elem_vec |-> [i \in 1..n |-> Elem], empty_head |-> NULL_INDEX,
              filled_head |-> NULL_INDEX, empty_cnt |-> 0, filled_cnt |-> 0], n)

\* SlabManager(size_t n): a vector of max(n, 1) default elements, initialized.
Construct(n) ==
  LET n1 == IF n > 0 THEN n ELSE 1
  IN initialize([elem_vec |-> [i \in 1..n1 |-> Elem], empty_head |-> NULL_INDEX,
                 filled_head |-> NULL_INDEX, empty_cnt |-> 0, filled_cnt |-> 0], n1)

\* Faulty variant of LinkFilled: the acquired slot keeps is_empty = true.
Faulty_LinkFilled_FlagKept(v, fh, rv) ==
  LET v1 == IF fh # NULL_INDEX THEN SetPrev(v, fh, rv) ELSE v
      v2 == SetNext(v1, rv, fh)
  IN SetPrev(v2, rv, NULL_INDEX)

\* "Link acquired element with filled ones" (both branches of acquire()).
LinkFilled(v, fh, rv) ==
  LET v1 == IF fh # NULL_INDEX THEN SetPrev(v, fh, rv) ELSE v
      v2 == SetNext(v1, rv, fh)
      v3 == SetPrev(v2, rv, NULL_INDEX)
  IN SetEmpty(v3, rv, FALSE)

\* The index acquire() returns.
acquire_rv(m) == IF m.empty_head # NULL_INDEX THEN m.empty_head ELSE Len(m.elem_vec)

\* Faulty variant of acquire: reusing an empty slot does not count it out of
\* empty_cnt.
Faulty_acquire_EmptyCntKept(m) ==
  IF m.empty_head # NULL_INDEX
  THEN LET rv == m.empty_head
           eh == m.elem_vec[rv + 1].next
           v1 == IF eh # NULL_INDEX THEN SetPrev(m.elem_vec, eh, NULL_INDEX) ELSE m.elem_vec
       IN [elem_vec |-> SetEmpty(SetPrev(SetNext(
                          IF m.filled_head # NULL_INDEX
                          THEN SetPrev(v1, m.filled_head, rv) ELSE v1,
                          rv, m.filled_head), rv, NULL_INDEX), rv, FALSE),
           empty_head |-> eh, filled_head |-> rv,
           empty_cnt |-> m.empty_cnt, filled_cnt |-> m.filled_cnt + 1]
  ELSE LET rv == Len(m.elem_vec)
           v1 == Append(m.elem_vec, Elem)
       IN [elem_vec |-> SetEmpty(SetPrev(SetNext(
                          IF m.filled_head # NULL_INDEX
                          THEN SetPrev(v1, m.filled_head, rv) ELSE v1,
                          rv, m.filled_head), rv, NULL_INDEX), rv, FALSE),
           empty_head |-> m.empty_head, filled_head |-> rv,
           empty_cnt |-> m.empty_cnt, filled_cnt |-> m.filled_cnt + 1]

\* acquire(): the object after the call.
acquire(m) ==
  IF m.empty_head # NULL_INDEX
  THEN LET rv == m.empty_head
           eh == m.elem_vec[rv + 1].next
           v1 == IF eh # NULL_INDEX THEN SetPrev(m.elem_vec, eh, NULL_INDEX) ELSE m.elem_vec
       IN [elem_vec |-> LinkFilled(v1, m.filled_head, rv),
           empty_head |-> eh, filled_head |-> rv,
           empty_cnt |-> m.empty_cnt - 1, filled_cnt |-> m.filled_cnt + 1]
  ELSE LET rv == Len(m.elem_vec)
           v1 == Append(m.elem_vec, Elem)
       IN [elem_vec |-> LinkFilled(v1, m.filled_head, rv),
           empty_head |-> m.empty_head, filled_head |-> rv,
           empty_cnt |-> m.empty_cnt, filled_cnt |-> m.filled_cnt + 1]

\* is_slot_empty(ind): the exception it throws, or "none".
is_slot_empty_err(m, ind) == IF ind >= Len(m.elem_vec) THEN "out_of_range" ELSE "none"

\* is_slot_empty(ind): its return value when it does not throw.
is_slot_empty(m, ind) == m.elem_vec[ind + 1].is_empty

\* Faulty variant of give_back_err: the slot's flag is not tested, so a
\* second release is not detected.
Faulty_give_back_err_NoFlagTest(m, ind) ==
  IF ind >= Len(m.elem_vec) THEN "out_of_range" ELSE "none"

\* give_back(ind): the exception it throws, or "none".
give_back_err(m, ind) ==
  IF is_slot_empty_err(m, ind) # "none" THEN is_slot_empty_err(m, ind)
  ELSE IF is_slot_empty(m, ind) THEN "logic_error"
  ELSE "none"

\* Faulty variant of UnlinkFilled: filled_head is not moved when the head of
\* the filled list is removed.
Faulty_UnlinkFilled_HeadKept(m, ind) ==
  LET prev == m.elem_vec[ind + 1].prev
      next == m.elem_vec[ind + 1].next
      v1 == IF next # NULL_INDEX THEN SetPrev(m.elem_vec, next, prev) ELSE m.elem_vec
      v2 == IF prev # NULL_INDEX THEN SetNext(v1, prev, next) ELSE v1
  IN [elem_vec |-> v2, filled_head |-> m.filled_head]

\* Faulty variant of UnlinkFilled: the successor of the removed slot keeps
\* its prev link.
Faulty_UnlinkFilled_NextPrevKept(m, ind) ==
  LET prev == m.elem_vec[ind + 1].prev
      next == m.elem_vec[ind + 1].next
      v2 == IF prev # NULL_INDEX THEN SetNext(m.elem_vec, prev, next) ELSE m.elem_vec
  IN [elem_vec |-> v2,
      filled_head |-> IF prev # NULL_INDEX THEN m.filled_head ELSE next]

\* "Remove from list of filled elements": the vector and the filled head.
UnlinkFilled(m, ind) ==
  LET prev == m.elem_vec[ind + 1].prev
      next == m.elem_vec[ind + 1].next
      v1 == IF next # NULL_INDEX THEN SetPrev(m.elem_vec, next, prev) ELSE m.elem_vec
      v2 == IF prev # NULL_INDEX THEN SetNext(v1, prev, next) ELSE v1
  IN [elem_vec |-> v2,
      filled_head |-> IF prev # NULL_INDEX THEN m.filled_head ELSE next]

\* Faulty variant of LinkEmpty: the old head of the empty list is not
\* linked back to the released slot.
Faulty_LinkEmpty_NoBackLink(v, eh, ind) ==
  LET v2 == SetNext(v, ind, eh)
      v3 == SetPrev(v2, ind, NULL_INDEX)
  IN SetEmpty(v3, ind, TRUE)

\* "Link with empty elements": the vector after ind is pushed on the empty list.
LinkEmpty(v, eh, ind) ==
  LET v1 == IF eh # NULL_INDEX THEN SetPrev(v, eh, ind) ELSE v
      v2 == SetNext(v1, ind, eh)
      v3 == SetPrev(v2, ind, NULL_INDEX)
  IN SetEmpty(v3, ind, TRUE)

\* Faulty variant of give_back: the counts are adjusted before the check
\* that throws.
Faulty_give_back_CountsFirst(m, ind) ==
  IF (IF ind >= Len(m.elem_vec) THEN TRUE ELSE m.elem_vec[ind + 1].is_empty)
  THEN [m EXCEPT !.filled_cnt = @ - 1, !.empty_cnt = @ + 1]
  ELSE LET prev == m.elem_vec[ind + 1].prev
           next == m.elem_vec[ind + 1].next
           v1 == IF next # NULL_INDEX THEN SetPrev(m.elem_vec, next, prev) ELSE m.elem_vec
           v2 == IF prev # NULL_INDEX THEN SetNext(v1, prev, next) ELSE v1
           fh == IF prev # NULL_INDEX THEN m.filled_head ELSE next
           v3 == IF m.empty_head # NULL_INDEX THEN SetPrev(v2, m.empty_head, ind) ELSE v2
           v4 == SetEmpty(SetPrev(SetNext(v3, ind, m.empty_head), ind, NULL_INDEX), ind, TRUE)
       IN [elem_vec |-> v4, empty_head |-> ind, filled_head |-> fh,
           empty_cnt |-> m.empty_cnt + 1, filled_cnt |-> m.filled_cnt - 1]

\* Faulty variant of give_back: the released slot is linked in front of the
\* empty list but empty_head is not moved to it.
Faulty_give_back_EmptyHeadKept(m, ind) ==
  IF (IF ind >= Len(m.elem_vec) THEN TRUE ELSE m.elem_vec[ind + 1].is_empty)
  THEN m
  ELSE LET prev == m.elem_vec[ind + 1].prev
           next == m.elem_vec[ind + 1].next
           v1 == IF next # NULL_INDEX THEN SetPrev(m.elem_vec, next, prev) ELSE m.elem_vec
           v2 == IF prev # NULL_INDEX THEN SetNext(v1, prev, next) ELSE v1
           fh == IF prev # NULL_INDEX THEN m.filled_head ELSE next
           v3 == IF m.empty_head # NULL_INDEX THEN SetPrev(v2, m.empty_head, ind) ELSE v2
           v4 == SetEmpty(SetPrev(SetNext(v3, ind, m.empty_head), ind, NULL_INDEX), ind, TRUE)
       IN [elem_vec |-> v4,
           empty_head |-> IF m.empty_head # NULL_INDEX THEN m.empty_head ELSE ind,
           filled_head |-> fh,
           empty_cnt |-> m.empty_cnt + 1, filled_cnt |-> m.filled_cnt - 1]

\* give_back(ind): the object after the call (unchanged when it throws).
give_back(m, ind) ==
  IF give_back_err(m, ind) # "none" THEN m
  ELSE LET u == UnlinkFilled(m, ind)
       IN [elem_vec |-> LinkEmpty(u.elem_vec, m.empty_head, ind),
           empty_head |-> ind, filled_head |-> u.filled_head,
           empty_cnt |-> m.empty_cnt + 1, filled_cnt |-> m.filled_cnt - 1]

\* Faulty variant of clear: the last slot is left out of the relinking.
Faulty_clear_LastSlotSkipped(m) == initialize(m, Len(m.elem_vec) - 1)

\* clear()
clear(m) == initialize(m, Len(m.elem_vec))

\* The upsize loop of resize(): slots i .. newsize-1 are pushed, one by one,
\* on the head of the empty list.
RECURSIVE UpsizeLoop(_, _, _, _)
UpsizeLoop(v, eh, i, newsize) ==
  IF i < newsize
  THEN LET v1 == SetPrev(v, i, NULL_INDEX)
           v2 == SetNext(v1, i, eh)
           v3 == IF eh # NULL_INDEX THEN SetPrev(v2, eh, i) ELSE v2
       IN UpsizeLoop(v3, i, i + 1, newsize)
  ELSE [elem_vec |-> v, empty_head |-> eh]

\* std::vector::resize(n): truncates, or appends default elements.
VecResize(v, n) ==
  IF n <= Len(v) THEN SubSeq(v, 1, n)
  ELSE v \o [i \in 1..(n - Len(v)) |-> Elem]

\* Faulty variant of Upsize: the grown vector is initialized afresh, as the
\* constructor does.
Faulty_Upsize_Reinitializes(m, newsize) ==
  LET v == VecResize(m.elem_vec, newsize)
  IN [elem_vec |-> [i \in 1..Len(v) |->
                      [is_empty |-> TRUE,
                       prev |-> IF i = 1 THEN NULL_INDEX ELSE i - 2,
                       next |-> IF i = Len(v) THEN NULL_INDEX ELSE i]],
      empty_head |-> 0, filled_head |-> NULL_INDEX,
      empty_cnt |-> newsize, filled_cnt |-> 0]

\* Faulty variant of Upsize: the new slots are linked in front of the empty
\* list, but empty_head stays on the old head when there was one.
Faulty_Upsize_HeadKept(m, newsize) ==
  LET ss == Len(m.elem_vec)
      r == UpsizeLoop(VecResize(m.elem_vec, newsize), m.empty_head, ss, newsize)
  IN [elem_vec |-> r.elem_vec,
      empty_head |-> IF m.empty_head # NULL_INDEX THEN m.empty_head ELSE r.empty_head,
      filled_head |-> m.filled_head,
      empty_cnt |-> m.empty_cnt + (newsize - ss), filled_cnt |-> m.filled_cnt]

\* The upsize branch of resize().
Upsize(m, newsize) ==
  LET ss == Len(m.elem_vec)
      r == UpsizeLoop(VecResize(m.elem_vec, newsize), m.empty_head, ss, newsize)
  IN [elem_vec |-> r.elem_vec, empty_head |-> r.empty_head,
      filled_head |-> m.filled_head,
      empty_cnt |-> m.empty_cnt + (newsize - ss), filled_cnt |-> m.filled_cnt]

\* The backward scan of the downsize branch: pos is the highest filled
\* index (NULL_INDEX when there is none), cnt the empty slots above it.
RECURSIVE ScanBack(_, _, _)
ScanBack(v, i, cnt) ==
  IF v[i + 1].is_empty = FALSE THEN [pos |-> i, cnt |-> cnt]
  ELSE IF i = 0 THEN [pos |-> NULL_INDEX, cnt |-> cnt + 1]
  ELSE ScanBack(v, i - 1, cnt + 1)

\* Faulty variant of ShrinkRejected: the threshold is applied to the
\* trailing run cnt instead of empty_cnt - cnt.
Faulty_ShrinkRejected_TrailingRun(m, ss, sc) ==
  \/ sc.pos = ss - 1
  \/ sc.cnt < 4

\* The downsize branch returns without a change: pos is the last index, or
\* "empty_cnt - cnt < 4u".
ShrinkRejected(m, ss, sc) ==
  \/ sc.pos = ss - 1
  \/ USub(m.empty_cnt, sc.cnt) < 4

\* Faulty variant of TruncSize: the vector is cut to the requested size even
\* below the highest filled slot.
Faulty_TruncSize_IgnoresPos(newsize, pos) == newsize

\* Faulty variant of TruncSize: the vector is always cut right above the
\* highest filled slot, whatever size was asked for.
Faulty_TruncSize_IgnoresNewsize(newsize, pos) == pos + 1

\* The length the downsize branch truncates the vector to.
TruncSize(newsize, pos) == IF newsize > pos + 1 THEN newsize ELSE pos + 1

\* "Relink empties": the backward loop that rebuilds the empty list.
RECURSIVE RelinkLoop(_, _, _, _)
RelinkLoop(v, eh, ec, i) ==
  LET hit == v[i + 1].is_empty = TRUE
      v1 == IF ~hit THEN v
            ELSE IF eh = NULL_INDEX
                 THEN SetNext(SetPrev(v, i, NULL_INDEX), i, NULL_INDEX)
                 ELSE SetNext(SetPrev(SetPrev(v, eh, i), i, NULL_INDEX), i, eh)
      eh1 == IF hit THEN i ELSE eh
      ec1 == IF hit THEN ec + 1 ELSE ec
  IN IF i = 0 THEN [elem_vec |-> v1, empty_head |-> eh1, empty_cnt |-> ec1]
     ELSE RelinkLoop(v1, eh1, ec1, i - 1)

\* Faulty variant of Downsize: the 4-slot threshold is also applied when no
\* slot is filled.
Faulty_Downsize_ThresholdWhenAllEmpty(m, newsize0) ==
  LET ss == Len(m.elem_vec)
      newsize == IF newsize0 > 0 THEN newsize0 ELSE 1
      sc == ScanBack(m.elem_vec, ss - 1, 0)
  IN IF sc.pos = NULL_INDEX
     THEN IF ss - newsize < 4 THEN m
          ELSE LET v1 == VecResize(m.elem_vec, newsize)
               IN initialize([m EXCEPT !.elem_vec = v1], Len(v1))
     ELSE IF ShrinkRejected(m, ss, sc) THEN m
     ELSE LET v1 == VecResize(m.elem_vec, TruncSize(newsize, sc.pos))
              r == RelinkLoop(v1, NULL_INDEX, 0, Len(v1) - 1)
          IN [elem_vec |-> r.elem_vec, empty_head |-> r.empty_head,
              filled_head |-> m.filled_head,
              empty_cnt |-> r.empty_cnt, filled_cnt |-> m.filled_cnt]

\* The downsize branch of resize().
Downsize(m, newsize0) ==
  LET ss == Len(m.elem_vec)
      newsize == IF newsize0 > 0 THEN newsize0 ELSE 1
      sc == ScanBack(m.elem_vec, ss - 1, 0)
  IN IF sc.pos = NULL_INDEX
     THEN LET v1 == VecResize(m.elem_vec, newsize)
          IN initialize([m EXCEPT !.elem_vec = v1], Len(v1))
     ELSE IF ShrinkRejected(m, ss, sc) THEN m
     ELSE LET v1 == VecResize(m.elem_vec, TruncSize(newsize, sc.pos))
              r == RelinkLoop(v1, NULL_INDEX, 0, Len(v1) - 1)
          IN [elem_vec |-> r.elem_vec, empty_head |-> r.empty_head,
              filled_head |-> m.filled_head,
              empty_cnt |-> r.empty_cnt, filled_cnt |-> m.filled_cnt]

\* Faulty variant of resize: a call with the current size does not return
\* at once but goes through the downsize branch.
Faulty_resize_NoEqualSizeReturn(m, newsize) ==
  IF newsize > Len(m.elem_vec) THEN Upsize(m, newsize)
  ELSE Downsize(m, newsize)

\* resize(newsize)
resize(m, newsize) ==
  IF Len(m.elem_vec) = newsize THEN m
  ELSE IF newsize > Len(m.elem_vec) THEN Upsize(m, newsize)
  ELSE Downsize(m, newsize)

\* Faulty variant of resize_to_min: the vector is cut to one slot and
\* initialized afresh.
Faulty_resize_to_min_Reinitializes(m) ==
  initialize([m EXCEPT !.elem_vec = VecResize(m.elem_vec, 1)], 1)

\* resize_to_min()
resize_to_min(m) == resize(m, 1)

(***************************************************************************)
(* History of the calls: what the caller of the object has observed.       *)
(*   live   the indices acquire() has returned and that were neither given *)
(*          back nor cleared since;                                        *)
(*   order  the empty slots, the one that became empty last first: a slot  *)
(*          becomes empty when it is constructed or added by an upsize,    *)
(*          released by give_back or released by clear (slots that become  *)
(*          empty together are taken in ascending order);                  *)
(*   fresh  the empty slots released by give_back or added by an upsize    *)
(*          since the empty list was last rebuilt (by the constructor,     *)
(*          clear or a downsize that took effect), the latest first.       *)
(***************************************************************************)

\* The indices i < n with v[i].is_empty = e, in ascending order.
RECURSIVE SlotsWith(_, _, _)
SlotsWith(v, e, i) ==
  IF i >= Len(v) THEN <<>>
  ELSE (IF v[i + 1].is_empty = e THEN <<i>> ELSE <<>>) \o SlotsWith(v, e, i + 1)

\* s without the element x / without the elements >= n.
Without(s, x) == SelectSeq(s, LAMBDA y : y # x)
Below(s, n) == SelectSeq(s, LAMBDA y : y < n)

\* n-1, n-2, ..., ss: the slots an upsize adds, last added first.
RECURSIVE Added(_, _)
Added(ss, n) == IF n <= ss THEN <<>> ELSE <<n - 1>> \o Added(ss, n - 1)

\* The state a call is entered in: the object and the history so far.
Snapshot == [m |-> Self, live |-> live, order |-> order, fresh |-> fresh]

\* No call has returned since the caller last looked.
NoCall == [op |-> "none", arg |-> NULL_INDEX, ret |-> NULL_INDEX,
           empty |-> FALSE, err |-> "none"]

\* The downsize branch takes effect (reinitializes, or truncates and relinks).
DownsizeRelinks(m, newsize) ==
  LET ss == Len(m.elem_vec)
      sc == ScanBack(m.elem_vec, ss - 1, 0)
  IN newsize < ss /\ (sc.pos = NULL_INDEX \/ ~ShrinkRejected(m, ss, sc))

\* The call returns: the object becomes m2 and the call is recorded.
Return(op, arg, m2, ret, emp, err) ==
  /\ elem_vec' = m2.elem_vec
  /\ empty_head' = m2.empty_head
  /\ filled_head' = m2.filled_head
  /\ empty_cnt' = m2.empty_cnt
  /\ filled_cnt' = m2.filled_cnt
  /\ last' = [op |-> op, arg |-> arg, ret |-> ret, empty |-> emp, err |-> err]
  /\ pre' = Snapshot

\* The caller is between two calls.
Idle == last.op = "none"

\* The arguments tried for an index: every index a vector of MaxSize slots
\* has, the first one past it, and the largest value of the type.
Indices == (0..MaxSize) \cup {NULL_INDEX}

Init ==
  \E n \in 0..MaxSize :
    LET m == Construct(n)
        o == SlotsWith(m.elem_vec, TRUE, 0)
    IN /\ elem_vec = m.elem_vec
       /\ empty_head = m.empty_head
       /\ filled_head = m.filled_head
       /\ empty_cnt = m.empty_cnt
       /\ filled_cnt = m.filled_cnt
       /\ last = [op |-> "construct", arg |-> n, ret |-> NULL_INDEX,
                  empty |-> FALSE, err |-> "none"]
       /\ live = {}
       /\ order = o
       /\ fresh = <<>>
       /\ pre = [m |-> m, live |-> {}, order |-> o, fresh |-> <<>>]

Acquire ==
  /\ Idle
  /\ empty_head # NULL_INDEX \/ Len(elem_vec) < MaxSize
  /\ LET rv == acquire_rv(Self)
     IN /\ Return("acquire", NULL_INDEX, acquire(Self), rv, FALSE, "none")
        /\ live' = live \cup {rv}
        /\ order' = Without(order, rv)
        /\ fresh' = Without(fresh, rv)

GiveBack ==
  /\ Idle
  /\ \E ind \in Indices :
       LET err == give_back_err(Self, ind)
       IN /\ Return("give_back", ind, give_back(Self, ind), NULL_INDEX, FALSE, err)
          /\ live' = IF err = "none" THEN live \ {ind} ELSE live
          /\ order' = IF err = "none" THEN <<ind>> \o order ELSE order
          /\ fresh' = IF err = "none" THEN <<ind>> \o fresh ELSE fresh

IsSlotEmpty ==
  /\ Idle
  /\ \E ind \in Indices :
       LET err == is_slot_empty_err(Self, ind)
       IN /\ Return("is_slot_empty", ind, Self, NULL_INDEX,
                    IF err = "none" THEN is_slot_empty(Self, ind) ELSE FALSE, err)
          /\ UNCHANGED <<live, order, fresh>>

Clear ==
  /\ Idle
  /\ Return("clear", NULL_INDEX, clear(Self), NULL_INDEX, FALSE, "none")
  /\ live' = {}
  /\ order' = SlotsWith(elem_vec, FALSE, 0) \o order
  /\ fresh' = <<>>

\* The history after resize(newsize), for resize() and resize_to_min().
ResizeHistory(newsize, m2) ==
  LET ss == Len(elem_vec)
      relinks == DownsizeRelinks(Self, newsize)
  IN /\ live' = live
     /\ order' = IF newsize > ss THEN Added(ss, newsize) \o order
                 ELSE IF relinks THEN Below(order, Len(m2.elem_vec))
                 ELSE order
     /\ fresh' = IF newsize > ss THEN Added(ss, newsize) \o fresh
                 ELSE IF relinks THEN <<>>
                 ELSE fresh

Resize ==
  /\ Idle
  /\ \E newsize \in 0..MaxSize :
       LET m2 == resize(Self, newsize)
       IN /\ Return("resize", newsize, m2, NULL_INDEX, FALSE, "none")
          /\ ResizeHistory(newsize, m2)

ResizeToMin ==
  /\ Idle
  /\ LET m2 == resize_to_min(Self)
     IN /\ Return("resize_to_min", 1, m2, NULL_INDEX, FALSE, "none")
        /\ ResizeHistory(1, m2)

\* The caller has looked at the outcome of the last call; the object is
\* not touched.
Observed ==
  /\ ~Idle
  /\ last' = NoCall
  /\ pre' = Snapshot
  /\ UNCHANGED <<elem_vec, empty_head, filled_head, empty_cnt, filled_cnt,
                 live, order, fresh>>

Next ==
  \/ Acquire
  \/ GiveBack
  \/ IsSlotEmpty
  \/ Clear
  \/ Resize
  \/ ResizeToMin
  \/ Observed

Spec == Init /\ [][Next]_vars

\* The calls that can change the object: every call of Next but
\* is_slot_empty, a const member function (lines 70, 282-289) that leaves
\* the object as it is.  The objects reached are those of Spec.
MutatorNext ==
  \/ Acquire
  \/ GiveBack
  \/ Clear
  \/ Resize
  \/ ResizeToMin
  \/ Observed

MutatorSpec == Init /\ [][MutatorNext]_vars

(***************************************************************************)
(* Vocabulary of the properties.                                           *)
(***************************************************************************)

Range(s) == {s[k] : k \in 1..Len(s)}

\* The slots met by following next from index i, at most fuel of them; an
\* index outside the vector is listed and ends the walk.
RECURSIVE WalkFrom(_, _, _)
WalkFrom(v, i, fuel) ==
  IF i = NULL_INDEX \/ fuel = 0 THEN <<>>
  ELSE IF i >= Len(v) THEN <<i>>
  ELSE <<i>> \o WalkFrom(v, v[i + 1].next, fuel - 1)

\* The traversals of debug_check_integrity / debug_lists.
EmptyList(m) == WalkFrom(m.elem_vec, m.empty_head, Len(m.elem_vec) + 1)
FilledList(m) == WalkFrom(m.elem_vec, m.filled_head, Len(m.elem_vec) + 1)

EmptySlots(m) == {i \in 0..(Len(m.elem_vec) - 1) : m.elem_vec[i + 1].is_empty}
FilledSlots(m) == {i \in 0..(Len(m.elem_vec) - 1) : ~m.elem_vec[i + 1].is_empty}

\* The number of slots above the highest filled index (all of them empty).
TrailingEmpty(m) ==
  LET top == CHOOSE i \in FilledSlots(m) : \A j \in FilledSlots(m) : j <= i
  IN Len(m.elem_vec) - 1 - top

\* The last call was a resize to fewer slots than the vector had.
DownsizeCalled ==
  /\ last.op \in {"resize", "resize_to_min"}
  /\ last.arg < size(pre.m)

(***************************************************************************)
(* C1.  After any sequence of public calls the slots reachable from the    *)
(* empty head by next are exactly the slots flagged empty, the slots       *)
(* reachable from the filled head are exactly the slots flagged not empty, *)
(* no slot is in both lists, and the two traversal lengths are             *)
(* empty_count() and filled_count().                                       *)
(***************************************************************************)
C1_ListsMatchFlags ==
  LET e == EmptyList(Self)
      f == FilledList(Self)
  IN /\ Range(e) = EmptySlots(Self)
     /\ Range(f) = FilledSlots(Self)
     /\ Range(e) \cap Range(f) = {}
     /\ Len(e) = empty_count(Self)
     /\ Len(f) = filled_count(Self)

\* A downsize has truncated a vector holding a filled slot and several
\* empty ones.
C1_Witness ==
  /\ DownsizeCalled
  /\ size(Self) < size(pre.m)
  /\ filled_cnt > 0
  /\ empty_cnt > 1

(***************************************************************************)
(* C2.  empty_count() + filled_count() = size() after every call           *)
(* (acquire, give_back, clear, resize, resize_to_min).                     *)
(***************************************************************************)
C2_CountsAddUp == empty_count(Self) + filled_count(Self) = size(Self)

\* acquire() has grown the vector by one slot.
C2_Witness ==
  /\ last.op = "acquire"
  /\ size(Self) = size(pre.m) + 1
  /\ filled_cnt > 1

(***************************************************************************)
(* C3.  acquire() returns an index i < size() that was not a filled slot   *)
(* before the call (it was empty, or it is the previous size()), and       *)
(* is_slot_empty(i) is false right after the call; no index is returned    *)
(* again unless give_back(i) or clear() happened in between.               *)
(***************************************************************************)
C3_AcquireReturnsUnusedSlot ==
  last.op = "acquire" =>
    /\ last.ret < size(Self)
    /\ IF last.ret < size(pre.m)
       THEN pre.m.elem_vec[last.ret + 1].is_empty
       ELSE last.ret = size(pre.m)
    /\ is_slot_empty_err(Self, last.ret) = "none"
    /\ is_slot_empty(Self, last.ret) = FALSE
    /\ last.ret \notin pre.live

\* acquire() has reused a slot while other slots were filled.
C3_Witness ==
  /\ last.op = "acquire"
  /\ last.ret < size(pre.m)
  /\ pre.live # {}

(***************************************************************************)
(* C4.  give_back(i) on a filled slot makes is_slot_empty(i) true, takes   *)
(* one off filled_count() and adds one to empty_count(); give_back(i)      *)
(* called again right away throws the double-release logic_error and       *)
(* leaves the whole object unchanged.                                      *)
(***************************************************************************)
C4_GiveBackThenDoubleRelease ==
  /\ (last.op = "give_back" /\ last.err = "none") =>
       /\ ~pre.m.elem_vec[last.arg + 1].is_empty
       /\ is_slot_empty(Self, last.arg) = TRUE
       /\ filled_count(Self) = filled_count(pre.m) - 1
       /\ empty_count(Self) = empty_count(pre.m) + 1
       /\ give_back_err(Self, last.arg) = "logic_error"
       /\ give_back(Self, last.arg) = Self
  /\ (last.op = "give_back" /\ last.err = "logic_error") =>
       /\ pre.m.elem_vec[last.arg + 1].is_empty
       /\ Self = pre.m

\* give_back has released one of several filled slots.
C4_Witness ==
  /\ last.op = "give_back"
  /\ last.err = "none"
  /\ filled_cnt > 0

(***************************************************************************)
(* C5.  For an index i >= size(), is_slot_empty(i) and give_back(i) throw  *)
(* out_of_range and change nothing; for i < size(), is_slot_empty(i)       *)
(* returns the slot's flag and changes nothing.                            *)
(***************************************************************************)
C5_OutOfBounds ==
  /\ (last.op \in {"is_slot_empty", "give_back"} /\ last.arg >= size(pre.m)) =>
       /\ last.err = "out_of_range"
       /\ Self = pre.m
  /\ (last.op = "is_slot_empty" /\ last.arg < size(pre.m)) =>
       /\ last.err = "none"
       /\ last.empty = pre.m.elem_vec[last.arg + 1].is_empty
       /\ Self = pre.m

\* give_back was called with the first index past the vector while slots
\* were filled.
C5_Witness ==
  /\ last.op = "give_back"
  /\ last.arg = size(pre.m)
  /\ last.err = "out_of_range"
  /\ pre.m.filled_cnt > 0

(***************************************************************************)
(* C6.  A downsize (resize(newsize) with newsize < size(), resize_to_min   *)
(* included) never destroys or changes a filled slot: every index filled   *)
(* before the call is still < size() and still filled after it,            *)
(* filled_count() is unchanged, and the filled list (its head and the      *)
(* order of its elements) is the same as before.                           *)
(***************************************************************************)
C6_DownsizeKeepsFilledSlots ==
  DownsizeCalled =>
    /\ \A i \in FilledSlots(pre.m) :
         /\ i < size(Self)
         /\ Self.elem_vec[i + 1] = pre.m.elem_vec[i + 1]
    /\ filled_count(Self) = filled_count(pre.m)
    /\ Self.filled_head = pre.m.filled_head
    /\ FilledList(Self) = FilledList(pre.m)

\* A downsize has cut slots off a vector that holds filled slots.
C6_Witness ==
  /\ DownsizeCalled
  /\ size(Self) < size(pre.m)
  /\ FilledSlots(pre.m) # {}

(***************************************************************************)
(* C7.  resize(newsize) with newsize < size() changes nothing (size(),     *)
(* counts, flags, both lists) whenever the run of empty slots above the    *)
(* highest filled index is shorter than 4 slots (the run is measured from  *)
(* a filled slot, so the statement is about objects that hold one).        *)
(***************************************************************************)
C7_NoOpWhenTrailingRunShort ==
  (/\ DownsizeCalled
   /\ FilledSlots(pre.m) # {}
   /\ TrailingEmpty(pre.m) < 4) => Self = pre.m

(***************************************************************************)
(* C8.  After resize_to_min() returns on an object with at least one       *)
(* filled slot, at most 4 empty slots are left above the highest filled    *)
(* index.                                                                  *)
(***************************************************************************)
C8_ResizeToMinLeavesAtMost4 ==
  (/\ last.op = "resize_to_min"
   /\ FilledSlots(Self) # {}) => TrailingEmpty(Self) <= 4

\* The lowest index that is empty.
LowestEmpty(m) == CHOOSE i \in EmptySlots(m) : \A j \in EmptySlots(m) : i <= j

\* With a and b filled, give_back(a) has just returned: after give_back(b)
\* the next acquire() returns b and the one after it returns a.
LifoPair ==
  (last.op = "give_back" /\ last.err = "none") =>
    \A b \in FilledSlots(Self) :
      LET m2 == give_back(Self, b)
      IN /\ give_back_err(Self, b) = "none"
         /\ acquire_rv(m2) = b
         /\ acquire_rv(acquire(m2)) = last.arg

(***************************************************************************)
(* C9, as it is stated.  Reuse is LIFO: give_back(a), give_back(b) and     *)
(* then two acquire() calls return b and then a; in general acquire() on   *)
(* a non-empty empty list returns the slot that became empty last          *)
(* (released last, or added last).                                         *)
(***************************************************************************)
C9_AcquireReturnsLatestEmptied ==
  /\ LifoPair
  /\ (last.op = "acquire" /\ pre.m.empty_head # NULL_INDEX) =>
       last.ret = Head(pre.order)

(***************************************************************************)
(* C9, amended.  give_back(a), give_back(b) and then two acquire() calls   *)
(* return b and then a; in general acquire() on a non-empty empty list     *)
(* returns the slot released by give_back or added by an upsize last,      *)
(* among those released or added since the empty list was last rebuilt     *)
(* (by the constructor, clear() or a downsize that took effect) and still  *)
(* empty; when there is none it returns the lowest empty index.            *)
(***************************************************************************)
C9_AcquireReturnsLatestSinceRebuild ==
  /\ LifoPair
  /\ (last.op = "acquire" /\ pre.m.empty_head # NULL_INDEX) =>
       last.ret = IF pre.fresh # <<>> THEN Head(pre.fresh) ELSE LowestEmpty(pre.m)

\* acquire() has returned the later of two slots given back since the
\* empty list was rebuilt, while a lower index was empty.
C9_Witness ==
  /\ last.op = "acquire"
  /\ Len(pre.fresh) >= 2
  /\ last.ret = Head(pre.fresh)
  /\ LowestEmpty(pre.m) < last.ret

(***************************************************************************)
(* C10.  resize(size() + k) with k > 0 adds exactly k to size() and to     *)
(* empty_count(), leaves filled_count() unchanged, changes neither the     *)
(* flag nor the links of a filled slot, and leaves every empty slot empty. *)
(***************************************************************************)
C10_UpsizeAddsEmptySlots ==
  (last.op = "resize" /\ last.arg > size(pre.m)) =>
    /\ size(Self) = last.arg
    /\ empty_count(Self) = empty_count(pre.m) + (last.arg - size(pre.m))
    /\ filled_count(Self) = filled_count(pre.m)
    /\ Self.filled_head = pre.m.filled_head
    /\ \A i \in FilledSlots(pre.m) : Self.elem_vec[i + 1] = pre.m.elem_vec[i + 1]
    /\ \A i \in EmptySlots(pre.m) : Self.elem_vec[i + 1].is_empty
    /\ \A i \in size(pre.m)..(last.arg - 1) : Self.elem_vec[i + 1].is_empty

\* An upsize by several slots of a vector holding filled and empty slots.
C10_Witness ==
  /\ last.op = "resize"
  /\ last.arg > size(pre.m) + 1
  /\ FilledSlots(pre.m) # {}
  /\ EmptySlots(pre.m) # {}
\* The indices that k acquire() calls in a row return, and the object they
\* leave.
RECURSIVE AcquireRets(_, _)
AcquireRets(m, k) ==
  IF k = 0 THEN <<>> ELSE <<acquire_rv(m)>> \o AcquireRets(acquire(m), k - 1)

RECURSIVE AcquireTimes(_, _)
AcquireTimes(m, k) == IF k = 0 THEN m ELSE AcquireTimes(acquire(m), k - 1)

\* 0, 1, ..., n-1
Ascending(n) == [k \in 1..n |-> k - 1]

(***************************************************************************)
(* C11.  clear() sets filled_count() to 0 and empty_count() to size()      *)
(* without changing size(), makes every slot empty, empties the filled     *)
(* list and relinks the empty list in ascending index order, so that the   *)
(* next m acquire() calls (m <= size()) return 0, 1, ..., m-1.             *)
(***************************************************************************)
C11_ClearRelinksAscending ==
  last.op = "clear" =>
    /\ size(Self) = size(pre.m)
    /\ filled_count(Self) = 0
    /\ empty_count(Self) = size(Self)
    /\ FilledSlots(Self) = {}
    /\ Self.filled_head = NULL_INDEX
    /\ EmptyList(Self) = Ascending(size(Self))
    /\ \A k \in 0..size(Self) : AcquireRets(Self, k) = Ascending(k)

\* clear() was called while some slots were filled and the empty list was
\* not in ascending order.
C11_Witness ==
  /\ last.op = "clear"
  /\ FilledSlots(pre.m) # {}
  /\ EmptyList(pre.m) # <<>>
  /\ pre.m.empty_head # LowestEmpty(pre.m)

(***************************************************************************)
(* C12.  Construction with n gives size() = max(n, 1), empty_count() =     *)
(* size() and filled_count() = 0, and the first m acquire() calls on the   *)
(* new object return 0, 1, ..., m-1 for every m; once the empty list is    *)
(* exhausted each acquire() returns the old size() and grows size() by     *)
(* exactly 1 while empty_count() stays 0.                                  *)
(***************************************************************************)
C12_ConstructThenAcquire ==
  /\ last.op = "construct" =>
       /\ size(Self) = (IF last.arg > 1 THEN last.arg ELSE 1)
       /\ empty_count(Self) = size(Self)
       /\ filled_count(Self) = 0
       /\ \A k \in 0..(MaxSize + 2) :
            /\ AcquireRets(Self, k) = Ascending(k)
            /\ size(AcquireTimes(Self, k)) = (IF k > size(Self) THEN k ELSE size(Self))
            /\ empty_count(AcquireTimes(Self, k)) = (IF k > size(Self) THEN 0 ELSE size(Self) - k)
  /\ (last.op = "acquire" /\ pre.m.empty_head = NULL_INDEX) =>
       /\ last.ret = size(pre.m)
       /\ size(Self) = size(pre.m) + 1
       /\ empty_count(pre.m) = 0
       /\ empty_count(Self) = 0

\* acquire() has grown a vector that was constructed with several slots and
\* then filled.
C12_Witness ==
  /\ last.op = "acquire"
  /\ pre.m.empty_head = NULL_INDEX
  /\ last.ret = size(pre.m)
  /\ FilledList(Self) = Added(0, size(Self))
  /\ size(Self) > 2
HighestFilled(m) == CHOOSE i \in FilledSlots(m) : \A j \in FilledSlots(m) : j <= i

Max(a, b) == IF a > b THEN a ELSE b

\* The condition of C14 on the object: a downsize of m is not rejected.
NotRejected(m) ==
  /\ FilledSlots(m) # {}
  /\ HighestFilled(m) # size(m) - 1
  /\ empty_count(m) - TrailingEmpty(m) >= 4

\* What C14 says of resize(newsize) taking m to m2, when it is a downsize
\* that is not rejected.
TruncatedAsAsked(m, newsize, m2) ==
  (newsize < size(m) /\ NotRejected(m)) =>
    /\ size(m2) = Max(Max(newsize, 1), HighestFilled(m) + 1)
    /\ \A i \in 0..(size(m2) - 1) : m2.elem_vec[i + 1].is_empty = m.elem_vec[i + 1].is_empty
    /\ empty_count(m2) = Cardinality(EmptySlots(m2))
    /\ Range(EmptyList(m2)) = EmptySlots(m2)
    /\ Len(EmptyList(m2)) = Cardinality(EmptySlots(m2))

(***************************************************************************)
(* C14.  A downsize resize(newsize) that is not rejected (a filled slot    *)
(* exists, the highest filled index pos is not the last index, and         *)
(* empty_count() - cnt >= 4) leaves size() = max(max(newsize, 1), pos + 1),*)
(* empty_count() = the number of empty slots of the truncated vector, and  *)
(* an empty list that holds exactly those slots.  Checked for the call     *)
(* that has returned and, between calls, for every downsize of the object  *)
(* as it is after growing by one slot.                                     *)
(***************************************************************************)
C14_TruncatesToMaxOfNewsizeAndPos ==
  /\ DownsizeCalled => TruncatedAsAsked(pre.m, last.arg, Self)
  /\ Idle =>
       LET m1 == resize(Self, size(Self) + 1)
       IN NotRejected(m1) =>
            \A newsize \in 0..(size(m1) - 1) :
              TruncatedAsAsked(m1, newsize, resize(m1, newsize))

\* A downsize has cut the vector to exactly the size asked for, above a
\* filled slot.
C14_Witness ==
  /\ last.op = "resize"
  /\ last.arg < size(pre.m)
  /\ FilledSlots(pre.m) # {}
  /\ size(Self) = last.arg
  /\ empty_count(Self) >= 4
(***************************************************************************)
(* C15.  When no slot is filled, resize(newsize) with newsize < size()     *)
(* always takes effect, whatever the 4-slot threshold: the object becomes  *)
(* identical to one newly constructed with n = newsize (size max(newsize,  *)
(* 1), all slots empty, empty list ascending from head 0, filled list      *)
(* empty, counts).                                                         *)
(***************************************************************************)
C15_DownsizeOfEmptyObjectIsConstruction ==
  (DownsizeCalled /\ FilledSlots(pre.m) = {}) =>
    /\ Self = Construct(last.arg)
    /\ size(Self) = Max(last.arg, 1)
    /\ EmptyList(Self) = Ascending(size(Self))
    /\ Self.filled_head = NULL_INDEX

\* A downsize by fewer than 4 slots of an object with no filled slot whose
\* empty list was not ascending.
C15_Witness ==
  /\ last.op = "resize"
  /\ last.arg < size(pre.m)
  /\ FilledSlots(pre.m) = {}
  /\ size(pre.m) - size(Self) \in 1..3
  /\ EmptyList(pre.m) # Ascending(size(pre.m))
\* x is NULL_INDEX or an index of the vector of m.
NullOrInBounds(m, x) == x = NULL_INDEX \/ (0 <= x /\ x < size(m))

\* h is a well-formed list head of m.
WellFormedHead(m, h) ==
  /\ NullOrInBounds(m, h)
  /\ h # NULL_INDEX => m.elem_vec[h + 1].prev = NULL_INDEX

\* The walk w over m ended at NULL_INDEX, inside the vector, without
\* meeting a slot twice.
EndsWithoutRevisit(m, w) ==
  /\ Len(w) <= size(m)
  /\ Range(w) \subseteq 0..(size(m) - 1)
  /\ Cardinality(Range(w)) = Len(w)

(***************************************************************************)
(* C16.  In every reachable state both lists are well-formed doubly-linked *)
(* lists inside the vector: each head is NULL_INDEX or an index < size()   *)
(* whose prev is NULL_INDEX; every next and prev field is NULL_INDEX or an *)
(* index < size(); whenever slot x has next = y, slot y has prev = x; and  *)
(* following next from a head ends at NULL_INDEX without meeting a slot    *)
(* twice.                                                                  *)
(***************************************************************************)
C16_ListsWellFormed ==
  /\ WellFormedHead(Self, empty_head)
  /\ WellFormedHead(Self, filled_head)
  /\ \A x \in 0..(size(Self) - 1) :
       LET y == elem_vec[x + 1].next
       IN /\ NullOrInBounds(Self, y)
          /\ NullOrInBounds(Self, elem_vec[x + 1].prev)
          /\ y # NULL_INDEX => elem_vec[y + 1].prev = x
  /\ EndsWithoutRevisit(Self, EmptyList(Self))
  /\ EndsWithoutRevisit(Self, FilledList(Self))

\* give_back has released a slot from the middle of the filled list onto a
\* non-empty empty list.
C16_Witness ==
  /\ last.op = "give_back"
  /\ last.err = "none"
  /\ pre.m.elem_vec[last.arg + 1].prev # NULL_INDEX
  /\ pre.m.elem_vec[last.arg + 1].next # NULL_INDEX
  /\ pre.m.empty_head # NULL_INDEX
\* The change of every slot over the last call is one of the transitions of
\* the per-slot state machine; clearFrees says whether clear() is among the
\* calls that may take a slot from filled to empty.
SlotTransitionsAllowed(clearFrees) ==
  /\ \A i \in FilledSlots(pre.m) :
       \* a filled slot stays, or is released by give_back(i)
       /\ i < size(Self)
       /\ elem_vec[i + 1].is_empty =>
            \/ last.op = "give_back" /\ last.arg = i /\ last.err = "none"
            \/ clearFrees /\ last.op = "clear"
  /\ \A i \in EmptySlots(pre.m) :
       \* an empty slot stays, is returned by acquire(), or is cut off
       /\ (i < size(Self) /\ ~elem_vec[i + 1].is_empty) =>
            (last.op = "acquire" /\ last.ret = i)
       /\ i >= size(Self) => DownsizeCalled
  /\ \A i \in size(pre.m)..(size(Self) - 1) :
       \* a new slot is the one acquire() returns, or is added empty by an upsize
       \/ /\ last.op = "acquire"
          /\ last.ret = i
          /\ ~elem_vec[i + 1].is_empty
          /\ size(Self) = size(pre.m) + 1
       \/ /\ last.op = "resize"
          /\ last.arg > size(pre.m)
          /\ elem_vec[i + 1].is_empty

(***************************************************************************)
(* C17, as it is stated.  Over any call a slot goes from filled to empty   *)
(* only through give_back on its index, from empty to filled only through  *)
(* acquire() returning it, new slots appear only through acquire() (as     *)
(* filled) or an upsize (as empty), and slots disappear only through a     *)
(* downsize that removes trailing empty slots; there are no other          *)
(* transitions.                                                            *)
(***************************************************************************)
C17_SlotStateMachine == SlotTransitionsAllowed(FALSE)

(***************************************************************************)
(* C17, amended.  As above, except that a slot also goes from filled to    *)
(* empty through clear(), which empties every filled slot at once.         *)
(***************************************************************************)
C17_SlotStateMachineWithClear == SlotTransitionsAllowed(TRUE)

\* clear() has emptied several filled slots.
C17_Witness ==
  /\ last.op = "clear"
  /\ Cardinality(FilledSlots(pre.m)) > 1
  /\ FilledSlots(Self) = {}
(***************************************************************************)
(* C18.  After an upsize resize(s + k) from size s (k > 0) the new slots   *)
(* are reused first and newest first: the next k acquire() calls return    *)
(* s+k-1, s+k-2, ..., s in that order, before any slot that was empty      *)
(* before the upsize.                                                      *)
(***************************************************************************)
C18_UpsizeSlotsReusedNewestFirst ==
  (last.op = "resize" /\ last.arg > size(pre.m)) =>
    LET s == size(pre.m)
        k == last.arg - size(pre.m)
        rets == AcquireRets(Self, k)
    IN /\ Len(rets) = k
       /\ \A j \in 1..k : rets[j] = s + k - j
       /\ Range(rets) \cap EmptySlots(pre.m) = {}

\* An upsize by several slots of an object holding filled slots and an
\* empty slot released or added since the empty list was last rebuilt.
C18_Witness ==
  /\ last.op = "resize"
  /\ last.arg >= size(pre.m) + 2
  /\ pre.fresh # <<>>
  /\ Head(pre.fresh) < size(pre.m)
  /\ FilledSlots(pre.m) # {}
(***************************************************************************)
(* C19.  Round trip: when the empty list is not empty, i = acquire()       *)
(* followed at once by give_back(i) restores the whole object (size,       *)
(* counts, every flag, every prev and next link, both heads); when the     *)
(* empty list is empty the pair leaves size() larger by 1 with i the new   *)
(* head of the empty list and every slot filled before unchanged.          *)
(***************************************************************************)
C19_AcquireGiveBackRoundTrip ==
  last.op = "acquire" =>
    LET m2 == give_back(Self, last.ret)
    IN /\ give_back_err(Self, last.ret) = "none"
       /\ IF pre.m.empty_head # NULL_INDEX
          THEN m2 = pre.m
          ELSE /\ size(m2) = size(pre.m) + 1
               /\ m2.empty_head = last.ret
               /\ last.ret = size(pre.m)
               /\ EmptyList(m2) = <<last.ret>>
               /\ \A i \in 0..(size(pre.m) - 1) : m2.elem_vec[i + 1] = pre.m.elem_vec[i + 1]
               /\ m2.filled_head = pre.m.filled_head
               /\ filled_count(m2) = filled_count(pre.m)
               /\ empty_count(m2) = 1

\* acquire() has reused an empty slot of an object whose two lists both
\* held several slots.
C19_Witness ==
  /\ last.op = "acquire"
  /\ pre.m.empty_head # NULL_INDEX
  /\ empty_count(pre.m) > 1
  /\ filled_count(pre.m) > 1
  /\ pre.m.elem_vec[pre.m.empty_head + 1].next # NULL_INDEX
(***************************************************************************)
(* C20.  Idempotence of resize: for every reachable state and every        *)
(* newsize, resize(newsize) called twice in a row leaves the same object   *)
(* as resize(newsize) called once, whether the first call upsized,         *)
(* truncated, reinitialized or was rejected.  Checked for the call that    *)
(* has returned and, between calls, for every newsize on the object as it  *)
(* is after growing by one slot.                                           *)
(***************************************************************************)
C20_ResizeIdempotent ==
  /\ last.op \in {"resize", "resize_to_min"} => resize(Self, last.arg) = Self
  /\ Idle =>
       LET m1 == resize(Self, size(Self) + 1)
       IN \A newsize \in 0..(MaxSize + 2) :
            LET m2 == resize(m1, newsize)
            IN resize(m2, newsize) = m2

\* A resize has truncated a vector that holds a filled slot to more slots
\* than were asked for.
C20_Witness ==
  /\ last.op = "resize"
  /\ size(Self) < size(pre.m)
  /\ FilledSlots(pre.m) # {}
  /\ last.arg < size(Self)
====
